---- MODULE Spec2Model ----
(***************************************************************************)
(* Reconciliation & trust pipeline of the molt crawler.                    *)
(*                                                                         *)
(*   sync_portals.py   sync (the Merger)                                   *)
(*   discover.py       check_duplicates / remove_duplicates (Deduplicator) *)
(*   quality.py        calculate_relevance / calculate_trust /             *)
(*                     score_portals (Quality Scorer)                      *)
(*   verify_sites.py   get_unverified_sites / verify_sites /               *)
(*                     apply_results (Verification Orchestrator)           *)
(*                                                                         *)
(* Python strings are TLA+ strings; the str methods the code calls         *)
(* (lower, rstrip, replace, split, startswith, endswith, in, zfill) are    *)
(* operators that work character by character.                             *)
(***************************************************************************)
EXTENDS Integers, Sequences, FiniteSets, TLC

VARIABLES
    portals,    \* portals.json: the "portals" list, in file order
    sites,      \* molt_sites_db.json: the "sites" dict, in file order
    excluded,   \* excluded_sites.json: the "excluded" dict, domain -> record
    cache,      \* verification_cache.json: domain -> record
    today,      \* datetime.now(), as [y, m, d]
    files,      \* which of the store files exist on disk
    run,        \* the verification run in progress (verify_sites' locals)
    last        \* what the last operation was and what it started from

vars == <<portals, sites, excluded, cache, today, files, run, last>>

----------------------------------------------------------------------------
(* Python str methods *)

Ch(s, i) == SubSeq(s, i, i)

UpperAlpha == "ABCDEFGHIJKLMNOPQRSTUVWXYZ"
LowerAlpha == "abcdefghijklmnopqrstuvwxyz"

\* str.lower() and str.upper() on one character
LowerMap == [i \in 1..26 |-> Ch(LowerAlpha, i)]
UpperMap == [i \in 1..26 |-> Ch(UpperAlpha, i)]
UpperSet == {UpperMap[i] : i \in 1..26}
LowerSet == {LowerMap[i] : i \in 1..26}
ToLower == [c \in UpperSet |-> LowerMap[CHOOSE i \in 1..26 : UpperMap[i] = c]]
ToUpper == [c \in LowerSet |-> UpperMap[CHOOSE i \in 1..26 : LowerMap[i] = c]]

LowerCh(c) == IF c \in UpperSet THEN ToLower[c] ELSE c

UpperCh(c) == IF c \in LowerSet THEN ToUpper[c] ELSE c

\* str.lower()
RECURSIVE Lower(_)
Lower(s) == IF s = "" THEN "" ELSE LowerCh(Ch(s, 1)) \o Lower(SubSeq(s, 2, Len(s)))

\* s[:n]
Slice(s, n) == IF Len(s) <= n THEN s ELSE SubSeq(s, 1, n)

\* str.startswith(pre)
StartsWith(s, pre) == Len(pre) <= Len(s) /\ SubSeq(s, 1, Len(pre)) = pre

\* str.endswith(suf)
EndsWith(s, suf) ==
    Len(suf) <= Len(s) /\ SubSeq(s, Len(s) - Len(suf) + 1, Len(s)) = suf

\* str.find(sub, i - 1) + 1: the 1-based index of the first occurrence at or
\* after i, 0 when none
RECURSIVE FindFrom(_, _, _)
FindFrom(s, sub, i) ==
    IF i + Len(sub) - 1 > Len(s) THEN 0
    ELSE IF SubSeq(s, i, i + Len(sub) - 1) = sub THEN i
    ELSE FindFrom(s, sub, i + 1)

Find(s, sub) == FindFrom(s, sub, 1)

\* sub in s
Contains(s, sub) == sub = "" \/ Find(s, sub) > 0

\* str.replace(old, new), old non-empty: every non-overlapping occurrence,
\* left to right
RECURSIVE Replace(_, _, _)
Replace(s, old, new) ==
    LET i == Find(s, old)
    IN  IF i = 0 THEN s
        ELSE SubSeq(s, 1, i - 1) \o new
             \o Replace(SubSeq(s, i + Len(old), Len(s)), old, new)

\* str.rstrip('/')
RECURSIVE RStripSlash(_)
RStripSlash(s) ==
    IF s # "" /\ Ch(s, Len(s)) = "/" THEN RStripSlash(SubSeq(s, 1, Len(s) - 1)) ELSE s

\* str.split(sep)[0]
SplitHead(s, sep) ==
    LET i == Find(s, sep) IN IF i = 0 THEN s ELSE SubSeq(s, 1, i - 1)

\* str.split(sep)[1] when there is one; HasSplit1 tells whether
\* (an IndexError otherwise)
HasSplit1(s, sep) == Find(s, sep) > 0
SplitSecond(s, sep) ==
    LET i == Find(s, sep) IN SplitHead(SubSeq(s, i + Len(sep), Len(s)), sep)

----------------------------------------------------------------------------
(* urllib.parse.urlparse, for URLs without params *)

SchemeExtra == {"0", "1", "2", "3", "4", "5", "6", "7", "8", "9", "+", "-", "."}

IsLetter(c) == c \in UpperSet \/ c \in LowerSet

IsSchemeChar(c) == IsLetter(c) \/ c \in SchemeExtra

\* length of the "scheme:" prefix urlsplit takes off, 0 when there is none:
\* a letter, then scheme characters, up to the first ":"
SchemeLen(url) ==
    LET i == Find(url, ":")
    IN  IF i > 1 /\ IsLetter(Ch(url, 1)) /\ (\A j \in 1..(i - 1) : IsSchemeChar(Ch(url, j)))
        THEN i ELSE 0

\* the index of the first character of s that is in stops, Len(s)+1 when none
RECURSIVE FirstOf(_, _, _)
FirstOf(s, stops, i) ==
    IF i > Len(s) \/ Ch(s, i) \in stops THEN i ELSE FirstOf(s, stops, i + 1)

NetlocEnd(s) == FirstOf(s, {"/", "?", "#"}, 1)

PathEnd(s) == FirstOf(s, {"?", "#"}, 1)

\* urlparse(url): the netloc and the path
UrlParse(url) ==
    LET n    == SchemeLen(url)
        rest == SubSeq(url, n + 1, Len(url))
    IN  IF StartsWith(rest, "//")
        THEN LET r2 == SubSeq(rest, 3, Len(rest))
                 e  == NetlocEnd(r2)
                 r3 == SubSeq(r2, e, Len(r2))
             IN  [netloc |-> SubSeq(r2, 1, e - 1),
                  path   |-> SubSeq(r3, 1, PathEnd(r3) - 1)]
        ELSE [netloc |-> "", path |-> SubSeq(rest, 1, PathEnd(rest) - 1)]

----------------------------------------------------------------------------
(* dict access *)

\* d.get(k, dflt) on a record that may lack the field
Get(d, k, dflt) == IF k \in DOMAIN d THEN d[k] ELSE dflt

\* truthiness of d.get(k) for a flag that is a bool when present
Flag(d, k) == k \in DOMAIN d /\ d[k] = TRUE

\* a function with one key set (d[k] = v on a dict)
Put(d, k, v) == [x \in DOMAIN d \cup {k} |-> IF x = k THEN v ELSE d[x]]

Range(seq) == {seq[i] : i \in 1..Len(seq)}

----------------------------------------------------------------------------
(* datetime.now().strftime *)

Digit(n) == Ch("0123456789", n + 1)

\* '%m', '%d': two digits; also str(n).zfill(2) for 0 <= n <= 99
Fmt2(n) == Digit(n \div 10) \o Digit(n % 10)

\* '%Y'
Fmt4(n) == Digit(n \div 1000) \o Digit((n \div 100) % 10)
           \o Digit((n \div 10) % 10) \o Digit(n % 10)

\* strftime('%Y-%m-%d')
StrfDate(t) == Fmt4(t.y) \o "-" \o Fmt2(t.m) \o "-" \o Fmt2(t.d)

\* strftime('%Y-%m-01')
StrfMonthStart(t) == Fmt4(t.y) \o "-" \o Fmt2(t.m) \o "-01"

\* the position of a character in the ASCII order of the characters a date
\* string holds ("-" sorts before the digits); 0 for any other character
DateCharRank(c) ==
    LET order == "-0123456789"
    IN  IF \E i \in 1..Len(order) : Ch(order, i) = c
        THEN CHOOSE i \in 1..Len(order) : Ch(order, i) = c ELSE 0

\* a >= b on str: lexicographic, a proper prefix sorting first
RECURSIVE StrGe(_, _)
StrGe(a, b) ==
    IF b = "" THEN TRUE
    ELSE IF a = "" THEN FALSE
    ELSE IF Ch(a, 1) = Ch(b, 1) THEN StrGe(SubSeq(a, 2, Len(a)), SubSeq(b, 2, Len(b)))
    ELSE DateCharRank(Ch(a, 1)) > DateCharRank(Ch(b, 1))

----------------------------------------------------------------------------
(* sync_portals.py *)

\* str.title(): a letter that follows a letter is lower-cased, any other
\* letter is upper-cased; prev tells whether the previous character is a letter
RECURSIVE TitleFrom(_, _)
TitleFrom(s, prev) ==
    IF s = "" THEN ""
    ELSE LET c == Ch(s, 1)
         IN  (IF prev THEN LowerCh(c) ELSE UpperCh(c))
             \o TitleFrom(SubSeq(s, 2, Len(s)), IsLetter(c))

Title(s) == TitleFrom(s, FALSE)

\* str.strip(), for the blank
RECURSIVE Strip(_)
Strip(s) ==
    IF s # "" /\ Ch(s, 1) = " " THEN Strip(SubSeq(s, 2, Len(s)))
    ELSE IF s # "" /\ Ch(s, Len(s)) = " " THEN Strip(SubSeq(s, 1, Len(s) - 1))
    ELSE s

\* domain_to_name; titles of the model hold no em dash, so the third split
\* returns its argument
domain_to_name(domain, title) ==
    LET name == Strip(SplitHead(SplitHead(title, "|"), "-"))
        d1   == Replace(Replace(Replace(domain, ".com", ""), ".io", ""), ".ai", "")
        d2   == Replace(Replace(Replace(d1, ".app", ""), ".org", ""), ".xyz", "")
        d3   == Replace(Replace(d2, "-", " "), "_", " ")
    IN  IF title # "" /\ Len(title) > 3 /\ ~StartsWith(title, "http")
           /\ Len(name) > 3 /\ Len(name) < 50
        THEN name
        ELSE Title(d3)

\* domain_to_id
domain_to_id(domain) == Lower(Replace(Replace(domain, ".", "-"), "_", "-"))

\* existing_urls of sync
existing_urls(ps) == {Lower(RStripSlash(ps[i].url)) : i \in 1..Len(ps)}

\* p['url'].split('//')[1] raises IndexError for a url without "//"
SyncRaises(ps) == \E i \in 1..Len(ps) : ~HasSplit1(ps[i].url, "//")

\* existing_domains of sync: the host as written in the url, lower-cased
existing_domains(ps) ==
    {Lower(SplitHead(SplitSecond(ps[i].url, "//"), "/")) : i \in 1..Len(ps)}

\* SyncUrl without the rstrip('/')
SyncUrlKeepsSlash(site) == Get(site.info, "url", "https://" \o site.domain)

\* the url sync gives a discovery record
SyncUrl(site) ==
    RStripSlash(Get(site.info, "url", "https://" \o site.domain))

\* domain_clean of sync
domain_clean(domain) == Replace(Lower(domain), "www.", "")

\* the skips without the test of alive
SyncKeepsDead(site, ps) ==
    /\ Flag(site.info, "has_content")
    /\ Lower(SyncUrl(site)) \notin existing_urls(ps)
    /\ domain_clean(site.domain) \notin existing_domains(ps)
    /\ ~\E d \in existing_domains(ps) : EndsWith(domain_clean(site.domain), "." \o d)

\* the loop's three skips: TRUE when the record is converted
SyncKeeps(site, ps) ==
    /\ Flag(site.info, "alive") /\ Flag(site.info, "has_content")
    /\ Lower(SyncUrl(site)) \notin existing_urls(ps)
    /\ domain_clean(site.domain) \notin existing_domains(ps)
    /\ ~\E d \in existing_domains(ps) : EndsWith(domain_clean(site.domain), "." \o d)

\* the portal entry sync creates; icon, category and tag (detect_category)
\* are written here and read by no operation, and are left out
SyncPortal(site, now) ==
    LET title == Get(site.info, "title", "")
    IN  [id          |-> domain_to_id(site.domain),
         name        |-> domain_to_name(site.domain, title),
         url         |-> SyncUrl(site),
         description |-> IF title # "" THEN Slice(title, 150)
                         ELSE "Discovered at " \o site.domain,
         discovered  |-> Slice(Get(site.info, "first_seen", StrfDate(now)), 10)]

\* new_portals with each converted record put at the front of the list
RECURSIVE NewPortalsReversed(_, _, _)
NewPortalsReversed(ss, ps, now) ==
    IF ss = <<>> THEN <<>>
    ELSE NewPortalsReversed(Tail(ss), ps, now)
         \o (IF SyncKeeps(Head(ss), ps) THEN <<SyncPortal(Head(ss), now)>> ELSE <<>>)

\* new_portals of sync
RECURSIVE new_portals(_, _, _)
new_portals(ss, ps, now) ==
    IF ss = <<>> THEN <<>>
    ELSE (IF SyncKeeps(Head(ss), ps) THEN <<SyncPortal(Head(ss), now)>> ELSE <<>>)
         \o new_portals(Tail(ss), ps, now)

\* what one run of sync appends to the portal list: nothing when the crawler
\* DB has no sites, and nothing when the run ends in the IndexError
SyncAdded(ss, ps, now) ==
    IF ss = <<>> \/ SyncRaises(ps) THEN <<>> ELSE new_portals(ss, ps, now)

----------------------------------------------------------------------------
(* discover.py: the Deduplicator *)

\* the key check_duplicates files a url under
NormKey(url) ==
    LET normalized == UrlParse(Lower(url))
    IN  Replace(normalized.netloc, "www.", "") \o RStripSlash(normalized.path)

\* the key of every portal, in list order
RECURSIVE KeySeq(_)
KeySeq(ps) ==
    IF ps = <<>> THEN <<>>
    ELSE <<NormKey(Get(Head(ps), "url", ""))>> \o KeySeq(Tail(ps))

\* the portals at the positions idx, in list order
RECURSIVE AtPositions(_, _, _)
AtPositions(ps, idx, i) ==
    IF i > Len(ps) THEN <<>>
    ELSE (IF i \in idx THEN <<ps[i]>> ELSE <<>>) \o AtPositions(ps, idx, i + 1)

\* url_to_portals, read in insertion order from position i on: a key is
\* inserted at its first portal, and its list holds the portals filed under it
RECURSIVE GroupsFrom(_, _, _)
GroupsFrom(ps, keys, i) ==
    IF i > Len(ps) THEN <<>>
    ELSE LET members == {j \in 1..Len(ps) : keys[j] = keys[i]}
         IN  (IF (\A j \in members : i <= j) /\ Cardinality(members) > 1
              THEN <<[key |-> keys[i], portals |-> AtPositions(ps, members, 1)]>>
              ELSE <<>>)
             \o GroupsFrom(ps, keys, i + 1)

\* check_duplicates: the groups of more than one portal
check_duplicates(ps) == GroupsFrom(ps, KeySeq(ps), 1)

\* the ids of remove = portals[1:]
RECURSIVE IdsOf(_)
IdsOf(ps) == IF ps = <<>> THEN <<>> ELSE <<Head(ps).id>> \o IdsOf(Tail(ps))

\* to_remove with remove = portals[2:]
RECURSIVE ToRemoveFromThird(_)
ToRemoveFromThird(dups) ==
    IF dups = <<>> THEN <<>>
    ELSE IdsOf(Tail(Tail(Head(dups).portals))) \o ToRemoveFromThird(Tail(dups))

\* to_remove of remove_duplicates
RECURSIVE to_remove(_)
to_remove(dups) ==
    IF dups = <<>> THEN <<>>
    ELSE IdsOf(Tail(Head(dups).portals)) \o to_remove(Tail(dups))

\* data['portals'] after remove_duplicates(dry_run=False)
remove_duplicates(ps) ==
    LET ids == Range(to_remove(check_duplicates(ps)))
    IN  SelectSeq(ps, LAMBDA p : p.id \notin ids)

----------------------------------------------------------------------------
(* quality.py: the Quality Scorer *)

RELEVANCE_KEYWORDS ==
    << [k |-> "molt", w |-> 3], [k |-> "claw", w |-> 3], [k |-> "openclaw", w |-> 3],
       [k |-> "lobster", w |-> 3], [k |-> "moltbook", w |-> 3],
       [k |-> "crustacean", w |-> 3], [k |-> "moltverse", w |-> 3],
       [k |-> "agent", w |-> 2], [k |-> "ai agent", w |-> 2],
       [k |-> "autonomous", w |-> 2], [k |-> "agentic", w |-> 2],
       [k |-> "bot", w |-> 1], [k |-> "llm", w |-> 2], [k |-> "claude", w |-> 2],
       [k |-> "gpt", w |-> 1], [k |-> "for agents", w |-> 2], [k |-> "for ai", w |-> 2],
       [k |-> "agent economy", w |-> 2], [k |-> "agent social", w |-> 2],
       [k |-> "agent marketplace", w |-> 2] >>

RED_FLAGS ==
    << "parked domain", "domain for sale", "coming soon", "under construction",
       "database vulnerability", "compromised", "scam", "phishing", "malware",
       "do not use" >>

\* the loop of calculate_relevance: score += weight * 10 for each keyword in text
RECURSIVE KeywordScore(_, _)
KeywordScore(text, kws) ==
    IF kws = <<>> THEN 0
    ELSE (IF Contains(text, Head(kws).k) THEN Head(kws).w * 10 ELSE 0)
         + KeywordScore(text, Tail(kws))

\* calculate_relevance(domain, title, description)[0]
calculate_relevance(domain, title, description) ==
    LET text  == Lower(domain \o " " \o title \o " " \o description)
        score == KeywordScore(text, RELEVANCE_KEYWORDS)
        bonus == IF \E k \in {"molt", "claw", "lobster", "agent"} :
                        Contains(Lower(domain), k)
                 THEN 20 ELSE 0
    IN  IF score + bonus < 100 THEN score + bonus ELSE 100

\* calculate_trust with the relevance tiers ahead of the red flags
TrustRelevanceFirst(domain, title, description, notes) ==
    LET text      == Lower(domain \o " " \o title \o " " \o description \o " " \o notes)
        relevance == calculate_relevance(domain, title, description)
    IN  IF relevance >= 60 THEN "high"
        ELSE IF \E i \in 1..Len(RED_FLAGS) : Contains(text, RED_FLAGS[i]) THEN "untrusted"
        ELSE IF relevance >= 30 THEN "medium"
        ELSE "low"

\* calculate_trust(domain, title, description, notes)
calculate_trust(domain, title, description, notes) ==
    LET text      == Lower(domain \o " " \o title \o " " \o description \o " " \o notes)
        relevance == calculate_relevance(domain, title, description)
    IN  IF \E i \in 1..Len(RED_FLAGS) : Contains(text, RED_FLAGS[i]) THEN "untrusted"
        ELSE IF relevance >= 60 THEN "high"
        ELSE IF relevance >= 30 THEN "medium"
        ELSE "low"

\* the domain score_portals scores a portal under
ScoreDomain(p) ==
    SplitHead(Replace(Replace(Get(p, "url", ""), "https://", ""), "http://", ""), "/")

\* the iteration with the trust tier computed whatever the portal stores
ScorePortalAfresh(p) ==
    LET domain      == ScoreDomain(p)
        title       == Get(p, "name", "")
        description == Get(p, "description", "")
        notes       == Get(p, "notes", "")
    IN  Put(Put(p, "relevance", calculate_relevance(domain, title, description)),
            "trust",
            IF Flag(p, "verified") THEN "verified"
            ELSE calculate_trust(domain, title, description, notes))

\* one iteration of score_portals' loop: the portal with both scores set
ScorePortal(p) ==
    LET domain      == ScoreDomain(p)
        title       == Get(p, "name", "")
        description == Get(p, "description", "")
        notes       == Get(p, "notes", "")
        relevance   == calculate_relevance(domain, title, description)
        trust       == Get(p, "trust", calculate_trust(domain, title, description, notes))
    IN  Put(Put(p, "relevance", relevance), "trust",
            IF Flag(p, "verified") THEN "verified" ELSE trust)

\* data['portals'] after score_portals
score_portals(ps) == [i \in 1..Len(ps) |-> ScorePortal(ps[i])]

----------------------------------------------------------------------------
(* verify_sites.py: the Verification Orchestrator *)

\* urlparse(url).netloc.replace('www.', '')
DomainOf(url) == Replace(UrlParse(url).netloc, "www.", "")

\* load_portals(): the registry domains (the empty set for an absent file)
load_portals(ps) == {DomainOf(Get(ps[i], "url", "")) : i \in 1..Len(ps)}

\* the domain get_unverified_sites derives from a key of the sites dict
KeyDomain(key) ==
    DomainOf(IF StartsWith(key, "http") THEN key ELSE "https://" \o key)

\* the cache test with the current day in place of the first of the month
CachedSinceToday(ca, domain, now) ==
    /\ domain \in DOMAIN ca
    /\ StrGe(Get(ca[domain], "verified", ""), StrfDate(now))

\* the cache test of get_unverified_sites: verified this month
CachedThisMonth(ca, domain, now) ==
    /\ domain \in DOMAIN ca
    /\ StrGe(Get(ca[domain], "verified", ""), StrfMonthStart(now))

\* the three skips after the liveness test: TRUE when the site is a candidate
Unverified(site, ps, ex, ca, now) ==
    /\ Flag(site.info, "alive") /\ Flag(site.info, "has_real_content")
    /\ KeyDomain(site.domain) \notin load_portals(ps)
    /\ KeyDomain(site.domain) \notin DOMAIN ex
    /\ ~CachedThisMonth(ca, KeyDomain(site.domain), now)

\* get_unverified_sites()
RECURSIVE get_unverified_sites(_, _, _, _, _)
get_unverified_sites(ss, ps, ex, ca, now) ==
    IF ss = <<>> THEN <<>>
    ELSE (IF Unverified(Head(ss), ps, ex, ca, now)
          THEN <<[url    |-> Get(Head(ss).info, "url",
                                 "https://" \o KeyDomain(Head(ss).domain)),
                  domain |-> KeyDomain(Head(ss).domain),
                  title  |-> Get(Head(ss).info, "title", "")]>>
          ELSE <<>>)
         \o get_unverified_sites(Tail(ss), ps, ex, ca, now)

\* fetch_site(url): the result dict for one answer of the network. None is
\* 0 for the status and "" for redirect and error; content is the length of
\* the extracted text, and the title is left out (both only go into the prompt)
fetch_site(url, resp) ==
    IF resp.status = 0
    THEN [url |-> url, content |-> 0, status |-> 0, redirect |-> "",
          error |-> resp.error]
    ELSE [url      |-> url,
          content  |-> IF resp.status = 200 /\ resp.error = "" THEN resp.content ELSE 0,
          status   |-> resp.status,
          redirect |-> IF DomainOf(url) # DomainOf(resp.final) THEN resp.final ELSE "",
          error    |-> resp.error]

\* str(n) for 0 <= n <= 999
StrInt(n) ==
    IF n < 10 THEN Digit(n)
    ELSE IF n < 100 THEN Fmt2(n)
    ELSE Digit(n \div 100) \o Fmt2(n % 100)

\* the dict verify_with_llm returns without a call of the oracle
Verdict(verdict, confidence, reason) ==
    [verdict |-> verdict, confidence |-> confidence, reason |-> reason,
     name |-> "", description |-> "", category |-> "platform"]

\* what verify_with_llm makes of the oracle's reply: a reply is the text of
\* the message (an object, or text json.loads rejects) or the client's exception
ParseReply(reply) ==
    IF reply.kind = "object" THEN reply.json
    ELSE IF reply.kind = "not_json"
    THEN Verdict("error", "low", "Failed to parse LLM response")
    ELSE Verdict("error", "low", "LLM error")

\* verify_with_llm with the status test ahead of the redirect test
VerifyStatusFirst(site_data, reply) ==
    IF site_data.status # 200 /\ site_data.error = ""
    THEN [called |-> FALSE,
          out |-> Verdict("dead", "high", "HTTP status " \o StrInt(site_data.status))]
    ELSE IF site_data.redirect # ""
    THEN [called |-> FALSE,
          out |-> Verdict("redirect", "high", "Redirects to " \o site_data.redirect)]
    ELSE IF site_data.error # ""
    THEN [called |-> FALSE,
          out |-> Verdict("dead", "high", "Could not fetch: " \o site_data.error)]
    ELSE IF site_data.content < 50
    THEN [called |-> FALSE, out |-> Verdict("parked", "medium", "Minimal or no content")]
    ELSE [called |-> TRUE, out |-> ParseReply(reply)]

\* verify_with_llm(client, site_data): out is the value returned, called
\* tells whether client.messages.create was reached
verify_with_llm(site_data, reply) ==
    IF site_data.redirect # ""
    THEN [called |-> FALSE,
          out |-> Verdict("redirect", "high", "Redirects to " \o site_data.redirect)]
    ELSE IF site_data.error # ""
    THEN [called |-> FALSE,
          out |-> Verdict("dead", "high", "Could not fetch: " \o site_data.error)]
    ELSE IF site_data.status # 200
    THEN [called |-> FALSE,
          out |-> Verdict("dead", "high", "HTTP status " \o StrInt(site_data.status))]
    ELSE IF site_data.content < 50
    THEN [called |-> FALSE, out |-> Verdict("parked", "medium", "Minimal or no content")]
    ELSE [called |-> TRUE, out |-> ParseReply(reply)]

\* the cache without a record for a verdict of error
CachedUnlessError(ca, domain, verification, now) ==
    IF Get(verification, "verdict", "error") = "error" THEN ca
    ELSE Put(ca, domain, [verified |-> StrfDate(now), result |-> verification])

\* cache[domain] = {'verified': today, 'result': verification}
Cached(ca, domain, verification, now) ==
    Put(ca, domain, [verified |-> StrfDate(now), result |-> verification])

\* results of verify_sites before the loop
NoResults == [agent_usable |-> <<>>, excluded |-> <<>>, errors |-> <<>>]

ExcludeVerdicts == {"for-humans", "parked", "redirect", "wrong-industry", "dead"}

\* the classification of one verification into its bucket
Classify(results, item, v) ==
    LET verdict    == Get(v, "verdict", "error")
        confidence == Get(v, "confidence", "low")
        reason     == Get(v, "reason", "Unknown")
    IN  IF verdict = "agent-usable"
        THEN [results EXCEPT !.agent_usable = Append(@,
                [domain      |-> item.domain,
                 url         |-> item.url,
                 name        |-> Get(v, "name", item.domain),
                 description |-> Get(v, "description", ""),
                 category    |-> Get(v, "category", "platform"),
                 confidence  |-> confidence])]
        ELSE IF verdict \in ExcludeVerdicts
        THEN [results EXCEPT !.excluded = Append(@,
                [domain |-> item.domain, verdict |-> verdict, reason |-> reason])]
        ELSE [results EXCEPT !.errors = Append(@,
                [domain |-> item.domain, reason |-> reason])]

\* the portal apply_results creates; icon, category and tag are left out as
\* in SyncPortal
ApplyPortal(site, now) ==
    [id          |-> Replace(site.domain, ".", "-"),
     name        |-> site.name,
     url         |-> site.url,
     description |-> site.description,
     discovered  |-> StrfDate(now),
     relevance   |-> 80,
     trust       |-> IF site.confidence = "high" THEN "high" ELSE "medium"]

\* the portals the first loop of apply_results appends: existing_domains is
\* computed once, before the loop
RECURSIVE ApplyAdded(_, _, _)
ApplyAdded(accepted, existing, now) ==
    IF accepted = <<>> THEN <<>>
    ELSE (IF Head(accepted).domain \notin existing
          THEN <<ApplyPortal(Head(accepted), now)>> ELSE <<>>)
         \o ApplyAdded(Tail(accepted), existing, now)

\* recheck_after of apply_results
recheck_after(now) ==
    Replace(StrfDate(now), Fmt2(now.m), Fmt2(((now.m + 6 - 1) % 12) + 1))

\* the second loop of apply_results: the excluded dict after it
RECURSIVE ApplyExcluded(_, _, _)
ApplyExcluded(rejected, ex, now) ==
    IF rejected = <<>> THEN ex
    ELSE ApplyExcluded(Tail(rejected),
            IF Head(rejected).domain \in DOMAIN ex THEN ex
            ELSE Put(ex, Head(rejected).domain,
                     [reason        |-> Head(rejected).reason,
                      category      |-> Head(rejected).verdict,
                      checked       |-> StrfDate(now),
                      recheck_after |-> recheck_after(now)]),
            now)

----------------------------------------------------------------------------
(* the bounds of the model and the inputs it draws from *)

MaxPortals == 3     \* no operation grows the portal list beyond this
MaxSites == 2       \* discovery records in one crawler DB

\* DiscoveryRecords the crawler may have written, in the order of its file
Catalogue ==
    << [domain |-> "moltbook.com",
        info   |-> [title |-> "Moltbook - agent social", alive |-> TRUE,
                    has_content |-> TRUE, has_real_content |-> TRUE,
                    first_seen |-> "2026-01-10T08:30:00"]],
       [domain |-> "www.moltbook.com",
        info   |-> [url |-> "https://www.moltbook.com/", title |-> "",
                    alive |-> TRUE, has_content |-> TRUE, has_real_content |-> TRUE]],
       [domain |-> "www.moltbook.com",
        info   |-> [url |-> "http://www.moltbook.com", title |-> "",
                    alive |-> TRUE, has_content |-> TRUE, has_real_content |-> TRUE]],
       [domain |-> "sub.moltbook.com",
        info   |-> [title |-> "Sub", alive |-> TRUE, has_content |-> TRUE,
                    has_real_content |-> FALSE]],
       [domain |-> "Claw.ai",
        info   |-> [url |-> "https://claw.ai/", title |-> "Claw forum for agents",
                    alive |-> TRUE, has_content |-> TRUE, has_real_content |-> TRUE]],
       [domain |-> "dead.io",
        info   |-> [title |-> "Dead", alive |-> FALSE, has_content |-> TRUE,
                    has_real_content |-> TRUE]],
       [domain |-> "thin.io",
        info   |-> [title |-> "Thin", alive |-> TRUE]],
       [domain |-> "gone.io",
        info   |-> [title |-> "Gone", has_content |-> TRUE]] >>

\* the crawler DB holding the records idx of the catalogue, in its order
RECURSIVE Pick(_, _)
Pick(idx, i) ==
    IF i > Len(Catalogue) THEN <<>>
    ELSE (IF i \in idx THEN <<Catalogue[i]>> ELSE <<>>) \o Pick(idx, i + 1)

\* the crawler DBs: at most MaxSites records, no domain twice (the sites dict
\* has one record per key)
IsDB(idx) ==
    /\ Cardinality(idx) <= MaxSites
    /\ \A i, j \in idx : i # j => Catalogue[i].domain # Catalogue[j].domain

\* the hand-curated registry the repository ships
Curated ==
    [id |-> "moltbook", name |-> "Moltbook", url |-> "https://moltbook.com",
     description |-> "Social network for AI agents", discovered |-> "2026-01-01",
     verified |-> TRUE]

SeedRegistries == {<<>>, <<Curated>>}

Dates == << [y |-> 2026, m |-> 1, d |-> 15], [y |-> 2026, m |-> 10, d |-> 3],
            [y |-> 2026, m |-> 11, d |-> 1], [y |-> 2026, m |-> 11, d |-> 3] >>

EmptyDict == [x \in {} |-> 0]

Idle == [pc |-> "idle"]

\* a candidate the oracle accepted with medium confidence, as verify_sites
\* hands it to apply_results
AcceptedMedium ==
    [domain |-> "Claw.ai", url |-> "https://claw.ai/", name |-> "Molt",
     description |-> "Agent API", category |-> "platform",
     confidence |-> "medium"]

\* registries the Quality Scorer is run on: the curated one, and what sync
\* and apply_results make of it and of the empty one
ScoreSeeds ==
    { <<Curated>>,
      SyncAdded(Pick({1, 5}, 1), <<>>, Dates[1]),
      <<Curated>> \o SyncAdded(Pick({5}, 1), <<Curated>>, Dates[1]),
      <<Curated>> \o ApplyAdded(<<AcceptedMedium>>, load_portals(<<Curated>>), Dates[1]),
      SyncAdded(Pick({1}, 1), <<>>, Dates[1])
          \o ApplyAdded(<<AcceptedMedium>>, {"moltbook.com"}, Dates[1]),
      <<Curated>> \o SyncAdded(Pick({5}, 1), <<Curated>>, Dates[1])
          \o ApplyAdded(<<AcceptedMedium>>, {"moltbook.com", "claw.ai"}, Dates[1]) }

\* the texts calculate_trust is called on
TrustDomains == {"moltbook.com", "claw.ai", "example.com", "Scam.io"}

TrustTitles == {"", "Moltbook", "Coming", "DOMAIN FOR SALE"}

TrustDescriptions ==
    {"", "Social network for AI agents", "soon",
     "agent marketplace for agents - Coming Soon",
     "molt claw lobster llm PHISHING"}

TrustNotes == {"", "do not use", "reviewed"}

Limit == 2          \* --limit: candidates verified in one run

\* the crawler DBs the Verification Orchestrator is run on
VerifyDBs == {Pick({1, 2}, 1), Pick({4, 5}, 1)}

\* the cache file an earlier run has left, on a site the crawler DB no
\* longer holds
OldCache ==
    [d \in {"old.io"} |->
        [verified |-> "2025-12-01",
         result   |-> Verdict("dead", "high", "HTTP status 404")]]

Parking == "https://sedo.com/"

\* what the network answers to the GET of url: a response with its status,
\* final URL and length of extracted text (error: the body could not be
\* read), or no response at all (status 0)
Responses(url) ==
    { [status |-> 200, final |-> url, content |-> 50, error |-> ""],
      [status |-> 200, final |-> url, content |-> 49, error |-> ""],
      [status |-> 404, final |-> url, content |-> 0, error |-> ""],
      [status |-> 404, final |-> Parking, content |-> 0, error |-> ""],
      [status |-> 0, final |-> "", content |-> 0, error |-> "timeout"] }

\* what the oracle answers
Replies ==
    { [kind |-> "object",
       json |-> [verdict |-> "agent-usable", confidence |-> "high",
                 reason |-> "has an API", name |-> "Molt",
                 description |-> "Agent API", category |-> "platform"]],
      [kind |-> "object",
       json |-> [verdict |-> "for-humans", confidence |-> "high",
                 reason |-> "a blog"]],
      [kind |-> "object", json |-> [confidence |-> "low"]],
      [kind |-> "not_json"],
      [kind |-> "array"] }

----------------------------------------------------------------------------
(* the operations on the registry *)

\* the crawler rewrites molt_sites_db.json: one record more, or one less
Crawl ==
    /\ \E i \in 1..Len(Catalogue) :
         LET idx == {j \in 1..Len(Catalogue) : Catalogue[j] \in Range(sites)}
             new == IF i \in idx THEN idx \ {i} ELSE idx \cup {i}
         IN  IsDB(new) /\ sites' = Pick(new, 1)
    /\ last' = [op |-> "crawl"]
    /\ UNCHANGED <<portals, excluded, cache, today, files, run>>

\* sync(): load_portals gives the empty registry for an absent file; the file
\* is written only when new_portals is not empty
Sync ==
    LET added == SyncAdded(sites, portals, today)
    IN  /\ Len(portals) + Len(added) <= MaxPortals
        /\ portals' = portals \o added
        /\ files' = IF added = <<>> THEN files ELSE files \cup {"portals"}
        /\ last' = [op |-> "sync", added |-> Len(added)]
        /\ UNCHANGED <<sites, excluded, cache, today, run>>

\* an operation that opens portals.json when it is absent ends in
\* FileNotFoundError and changes nothing
Raises(name) ==
    /\ last' = [op |-> "raised", by |-> name]
    /\ UNCHANGED <<portals, sites, excluded, cache, today, files, run>>

\* remove_duplicates(dry_run=True)
DedupDryRun ==
    IF "portals" \notin files THEN Raises("remove_duplicates")
    ELSE /\ last' = [op |-> "dedup_dry",
                     removed |-> Len(to_remove(check_duplicates(portals)))]
         /\ UNCHANGED <<portals, sites, excluded, cache, today, files, run>>

\* remove_duplicates(dry_run=False)
DedupApply ==
    IF "portals" \notin files THEN Raises("remove_duplicates")
    ELSE /\ portals' = IF check_duplicates(portals) = <<>> THEN portals
                       ELSE remove_duplicates(portals)
         /\ last' = [op |-> "dedup",
                     removed |-> Len(to_remove(check_duplicates(portals)))]
         /\ UNCHANGED <<sites, excluded, cache, today, files, run>>

\* score_portals()
Score ==
    IF "portals" \notin files THEN Raises("score_portals")
    ELSE /\ portals' = score_portals(portals)
         /\ last' = [op |-> "score"]
         /\ UNCHANGED <<sites, excluded, cache, today, files, run>>

\* the manual edits audit_low_quality asks for, on one entry of portals.json:
\* "trust": "medium", or "verified": true
Curate ==
    /\ "portals" \in files
    /\ \E i \in 1..Len(portals) :
         \/ /\ ~("trust" \in DOMAIN portals[i] /\ portals[i].trust = "medium")
            /\ portals' = [portals EXCEPT ![i] = Put(portals[i], "trust", "medium")]
         \/ /\ ~Flag(portals[i], "verified")
            /\ portals' = [portals EXCEPT ![i] = Put(portals[i], "verified", TRUE)]
    /\ last' = [op |-> "curate"]
    /\ UNCHANGED <<sites, excluded, cache, today, files, run>>

----------------------------------------------------------------------------
(* the operations of the Verification Orchestrator *)

\* main() up to the call of verify_sites: the candidates, cut to the limit;
\* verify_sites starts from the cache on file
Select ==
    LET unverified == get_unverified_sites(sites, portals, excluded, cache, today)
    IN  /\ run.pc = "idle"
        /\ run' = IF unverified = <<>> THEN Idle
                  ELSE [pc |-> "verifying", i |-> 1,
                        urls |-> SubSeq(unverified, 1,
                                        IF Len(unverified) < Limit
                                        THEN Len(unverified) ELSE Limit),
                        cache |-> cache, results |-> NoResults]
        /\ last' = [op |-> "select", unverified |-> unverified]
        /\ UNCHANGED <<portals, sites, excluded, cache, today, files>>

\* one turn of the loop of verify_sites: fetch, verify, cache, classify. A
\* reply that is JSON but no object makes verification.get raise, and the run
\* ends without saving the cache
VerifyOne ==
    /\ run.pc = "verifying" /\ run.i <= Len(run.urls)
    /\ \E reply \in Replies :
       \E resp \in Responses(run.urls[run.i].url) :
         LET item      == run.urls[run.i]
             site_data == fetch_site(item.url, resp)
             v         == verify_with_llm(site_data, reply)
         IN  IF v.called /\ reply.kind = "array"
             THEN /\ run' = Idle
                  /\ last' = [op |-> "raised", by |-> "verify_sites"]
             ELSE /\ run' = [run EXCEPT
                               !.i = @ + 1,
                               !.cache = Cached(@, item.domain, v.out, today),
                               !.results = Classify(@, item, v.out)]
                  /\ last' = [op |-> "verify", site_data |-> site_data,
                              called |-> v.called,
                              verdict |-> Get(v.out, "verdict", "error")]
    /\ UNCHANGED <<portals, sites, excluded, cache, today, files>>

\* the end of verify_sites: save_cache
Flush ==
    /\ run.pc = "verifying" /\ run.i > Len(run.urls)
    /\ cache' = run.cache
    /\ files' = files \cup {"cache"}
    /\ run' = [pc |-> "done", results |-> run.results]
    /\ last' = [op |-> "flush"]
    /\ UNCHANGED <<portals, sites, excluded, today>>

\* main() with --apply and a result to apply: apply_results(results), the
\* registry half, then the exclusion half, which opens excluded_sites.json
\* without a test for its existence
Apply ==
    LET results  == run.results
        added    == ApplyAdded(results.agent_usable, load_portals(portals), today)
        portals1 == portals \o added
    IN  /\ run.pc = "done"
        /\ results.agent_usable # <<>> \/ results.excluded # <<>>
        /\ Len(portals1) <= MaxPortals
        /\ run' = Idle
        /\ UNCHANGED <<sites, cache, today, files>>
        /\ IF results.agent_usable # <<>> /\ "portals" \notin files
           THEN /\ last' = [op |-> "raised", by |-> "apply_results"]
                /\ UNCHANGED <<portals, excluded>>
           ELSE /\ portals' = portals1
                /\ IF results.excluded # <<>> /\ "excluded" \notin files
                   THEN /\ last' = [op |-> "raised", by |-> "apply_results"]
                        /\ UNCHANGED excluded
                   ELSE /\ excluded' = ApplyExcluded(results.excluded, excluded, today)
                        /\ last' = [op |-> "apply", results |-> results,
                                    added |-> Len(added)]

\* main() without --apply, or with nothing to apply: the results are printed
Finish ==
    /\ run.pc = "done"
    /\ run' = Idle
    /\ last' = [op |-> "finish"]
    /\ UNCHANGED <<portals, sites, excluded, cache, today, files>>

\* the calendar moves on between two runs
Tick ==
    /\ run.pc = "idle"
    /\ \E k \in 1..(Len(Dates) - 1) :
         today = Dates[k] /\ today' = Dates[k + 1]
    /\ last' = [op |-> "tick"]
    /\ UNCHANGED <<portals, sites, excluded, cache, files, run>>

Init ==
    /\ portals \in SeedRegistries
    /\ files \in {{"portals"}} \cup (IF portals = <<>> THEN {{}} ELSE {})
    /\ sites = <<>>
    /\ excluded = EmptyDict
    /\ cache = EmptyDict
    /\ today = Dates[1]
    /\ run = Idle
    /\ last = [op |-> "init"]

Next == Crawl \/ Sync \/ DedupDryRun \/ DedupApply

Spec == Init /\ [][Next]_vars

\* a call of calculate_trust (and of calculate_relevance) on the arguments
\* at hand
Rate ==
    /\ last.op = "call"
    /\ last' = [op |-> "rate", domain |-> last.domain, title |-> last.title,
                description |-> last.description, notes |-> last.notes,
                relevance |-> calculate_relevance(last.domain, last.title,
                                                  last.description),
                trust |-> calculate_trust(last.domain, last.title,
                                          last.description, last.notes)]
    /\ UNCHANGED <<portals, sites, excluded, cache, today, files, run>>

InitRate ==
    /\ portals = <<>>
    /\ files = {}
    /\ sites = <<>>
    /\ excluded = EmptyDict
    /\ cache = EmptyDict
    /\ today = Dates[1]
    /\ run = Idle
    /\ \E domain \in TrustDomains, title \in TrustTitles,
          description \in TrustDescriptions, notes \in TrustNotes :
         last = [op |-> "call", domain |-> domain, title |-> title,
                 description |-> description, notes |-> notes]

NextRate == Rate

SpecRate == InitRate /\ [][NextRate]_vars

InitScore ==
    /\ portals \in ScoreSeeds
    /\ files = {"portals"}
    /\ sites = <<>>
    /\ excluded = EmptyDict
    /\ cache = EmptyDict
    /\ today = Dates[1]
    /\ run = Idle
    /\ last = [op |-> "init"]

NextScore == Score \/ Curate

SpecScore == InitScore /\ [][NextScore]_vars

InitVerify ==
    /\ portals \in SeedRegistries
    /\ files \in {{"portals", "excluded", "cache"}, {"portals"}}
    /\ sites \in VerifyDBs
    /\ excluded = EmptyDict
    /\ cache = IF "cache" \in files THEN OldCache ELSE EmptyDict
    /\ today = Dates[1]
    /\ run = Idle
    /\ last = [op |-> "init"]

NextVerify == Select \/ VerifyOne \/ Flush \/ Apply \/ Finish \/ Tick

SpecVerify == InitVerify /\ [][NextVerify]_vars

----------------------------------------------------------------------------
(* the Merger and the Deduplicator *)

\* C1: merging the same discovery set again, against the registry the first
\* merge left, adds no entry (and so leaves the portal list as it is): in
\* every state a sync has just produced, a sync of the same crawler DB
\* computes an empty list of new portals.
C1_MergeIdempotent ==
    last.op = "sync" => SyncAdded(sites, portals, today) = <<>>

\* a sync has just added entries
C1_Witness == last.op = "sync" /\ last.added > 0

\* C2: a merge into a registry with pairwise distinct normalized keys leaves
\* a registry with pairwise distinct normalized keys (check_duplicates
\* reports no group).
C2_MergeKeepsKeysUnique ==
    [][(last'.op = "sync" /\ check_duplicates(portals) = <<>>)
          => check_duplicates(portals') = <<>>]_vars

\* the positions of ps that hold the first portal of their normalized key
Canonical(ps) ==
    {i \in 1..Len(ps) :
        \A j \in 1..(i - 1) :
            NormKey(Get(ps[j], "url", "")) # NormKey(Get(ps[i], "url", ""))}

\* C3: remove_duplicates in apply mode leaves the original list without
\* exactly the non-first members of each duplicate group: one member per
\* group survives, the first, and every other entry stays, in order.
C3_DedupKeepsCanonical ==
    [][last'.op = "dedup" => portals' = AtPositions(portals, Canonical(portals), 1)]_vars

\* C4: after remove_duplicates in apply mode, check_duplicates reports no
\* group and a second apply leaves the portal list as it is.
C4_DedupIdempotent ==
    last.op = "dedup" =>
        /\ check_duplicates(portals) = <<>>
        /\ remove_duplicates(portals) = portals

\* an apply has just removed entries
C4_Witness == last.op = "dedup" /\ last.removed > 0

----------------------------------------------------------------------------
(* the Verification Orchestrator *)

\* the calendar date an ISO string YYYY-MM-DD names
DigitVal(c) == CHOOSE n \in 0..9 : Digit(n) = c

ParseDate(str) ==
    [y |-> 1000 * DigitVal(Ch(str, 1)) + 100 * DigitVal(Ch(str, 2))
           + 10 * DigitVal(Ch(str, 3)) + DigitVal(Ch(str, 4)),
     m |-> 10 * DigitVal(Ch(str, 6)) + DigitVal(Ch(str, 7)),
     d |-> 10 * DigitVal(Ch(str, 9)) + DigitVal(Ch(str, 10))]

\* date a is strictly earlier than date b
DateBefore(a, b) ==
    \/ a.y < b.y
    \/ a.y = b.y /\ a.m < b.m
    \/ a.y = b.y /\ a.m = b.m /\ a.d < b.d

\* the record is alive and content-bearing, and its domain is no registry
\* domain
Eligible(site) ==
    /\ "alive" \in DOMAIN site.info /\ site.info.alive
    /\ "has_real_content" \in DOMAIN site.info /\ site.info.has_real_content
    /\ \A i \in 1..Len(portals) : DomainOf(portals[i].url) # KeyDomain(site.domain)

\* the Verdict Cache has no record of the domain, or one dated before the
\* first day of the current month
NotFresh(domain) ==
    domain \in DOMAIN cache =>
        DateBefore(ParseDate(cache[domain].verified), [today EXCEPT !.d = 1])

\* the domains of the records of ss that qualify, in the order of ss
RECURSIVE Qualifying(_)
Qualifying(ss) ==
    IF ss = <<>> THEN <<>>
    ELSE (IF /\ Eligible(Head(ss))
             /\ KeyDomain(Head(ss).domain) \notin DOMAIN excluded
             /\ NotFresh(KeyDomain(Head(ss).domain))
          THEN <<KeyDomain(Head(ss).domain)>> ELSE <<>>)
         \o Qualifying(Tail(ss))

C6_RecheckGate ==
    last.op = "select" =>
        \A i \in 1..Len(sites) :
            ( /\ Eligible(sites[i])
              /\ NotFresh(KeyDomain(sites[i].domain))
              /\ KeyDomain(sites[i].domain) \in DOMAIN excluded
              /\ DateBefore(ParseDate(excluded[KeyDomain(sites[i].domain)].recheck_after),
                            today) )
            => \E j \in 1..Len(last.unverified) :
                 last.unverified[j].domain = KeyDomain(sites[i].domain)

\* C7: for a fetch result with a cross-domain redirect, a fetch error, a status
\* other than 200 or a body shorter than 50 characters, verify_with_llm does
\* not call the oracle and returns redirect for the redirect, otherwise dead
\* for an error or a status other than 200, otherwise parked; the oracle is
\* called only when none of the conditions holds.
C7_ShortCircuit ==
    last.op = "verify" =>
        LET sd      == last.site_data
            cut     == \/ sd.redirect # "" \/ sd.error # ""
                       \/ sd.status # 200 \/ sd.content < 50
        IN  /\ last.called <=> ~cut
            /\ cut => last.verdict =
                        (IF sd.redirect # "" THEN "redirect"
                         ELSE IF sd.error # "" \/ sd.status # 200 THEN "dead"
                         ELSE "parked")

\* a 404 has been given the verdict dead without a call of the oracle
C7_Witness ==
    /\ last.op = "verify"
    /\ last.site_data.status = 404 /\ last.site_data.redirect = ""
    /\ last.verdict = "dead" /\ ~last.called

\* the domains a list of results names
ResultDomains(list) == {list[i].domain : i \in 1..Len(list)}

\* C8: after apply_results, applying the same results again appends no
\* PortalEntry and creates no ExclusionRecord, and the application has added
\* at most one PortalEntry per domain.
C8_ApplyIdempotent ==
    last.op = "apply" =>
        /\ ApplyAdded(last.results.agent_usable, load_portals(portals), today) = <<>>
        /\ ApplyExcluded(last.results.excluded, excluded, today) = excluded
        /\ last.added <= Cardinality(ResultDomains(last.results.agent_usable))

\* six calendar months after a date, the year incremented when the month
\* wraps past December
PlusSixMonths(date) ==
    IF date.m + 6 > 12
    THEN [y |-> date.y + 1, m |-> date.m + 6 - 12, d |-> date.d]
    ELSE [y |-> date.y, m |-> date.m + 6, d |-> date.d]

\* C9: every ExclusionRecord has recheck_after equal to its checked date plus
\* six calendar months, the year incremented when the month wraps past
\* December, and so strictly later than checked.
C9_RecheckSixMonths ==
    \A domain \in DOMAIN excluded :
        /\ ParseDate(excluded[domain].recheck_after)
             = PlusSixMonths(ParseDate(excluded[domain].checked))
        /\ DateBefore(ParseDate(excluded[domain].checked),
                      ParseDate(excluded[domain].recheck_after))

----------------------------------------------------------------------------
(* the Quality Scorer *)

\* the relevance of a portal's current text
RelevanceOf(p) ==
    calculate_relevance(ScoreDomain(p), Get(p, "name", ""), Get(p, "description", ""))

\* the trust tier computed from a portal's current text
TrustOf(p) ==
    calculate_trust(ScoreDomain(p), Get(p, "name", ""), Get(p, "description", ""),
                    Get(p, "notes", ""))

\* C10, as stated: after score_portals every entry's relevance is the
\* relevance of its text, its trust is verified when its verified flag is true
\* and otherwise the trust tier computed from its current text, whatever trust
\* it stored before, and no entry is removed.
C10_ScoreRecomputesBoth ==
    [][last'.op = "score" =>
         /\ Len(portals') = Len(portals)
         /\ \A i \in 1..Len(portals) :
              /\ portals'[i].relevance = RelevanceOf(portals[i])
              /\ portals'[i].trust =
                    (IF Flag(portals[i], "verified") THEN "verified"
                     ELSE TrustOf(portals[i]))]_vars

\* C10, amended: after score_portals every entry's relevance is the relevance
\* of its text, and its trust is verified when its verified flag is true,
\* otherwise the trust the entry stored before the call when it stored one,
\* otherwise the trust tier computed from its text; no entry is removed and
\* no other field changes.
C10_ScoreKeepsStoredTrust ==
    [][last'.op = "score" =>
         /\ Len(portals') = Len(portals)
         /\ \A i \in 1..Len(portals) :
              /\ portals'[i].relevance = RelevanceOf(portals[i])
              /\ portals'[i].trust =
                    (IF Flag(portals[i], "verified") THEN "verified"
                     ELSE IF "trust" \in DOMAIN portals[i] THEN portals[i].trust
                     ELSE TrustOf(portals[i]))
              /\ \A k \in DOMAIN portals[i] \ {"relevance", "trust"} :
                    portals'[i][k] = portals[i][k]
              /\ DOMAIN portals'[i] = DOMAIN portals[i] \cup {"relevance", "trust"}]_vars

\* score_portals has left an unverified entry with a trust tier other than
\* the one its text computes to
C10_Witness ==
    /\ last.op = "score"
    /\ \E i \in 1..Len(portals) :
         ~Flag(portals[i], "verified") /\ portals[i].trust # TrustOf(portals[i])

\* a red-flag phrase is a substring of the lower-cased text
RedFlagged(text) ==
    \E i \in 1..Len(RED_FLAGS) : Contains(Lower(text), RED_FLAGS[i])

\* C11: if a red-flag phrase is a substring of the lower-cased description, or
\* of the domain, the title or the notes, the computed trust tier is
\* untrusted, whatever the relevance; high, medium and low are returned only
\* when no field holds a red-flag phrase.
C11_RedFlagDominance ==
    last.op = "rate" =>
        /\ last.trust \in {"untrusted", "high", "medium", "low"}
        /\ ( \/ RedFlagged(last.description) \/ RedFlagged(last.domain)
             \/ RedFlagged(last.title) \/ RedFlagged(last.notes) )
           => last.trust = "untrusted"
        /\ last.trust \in {"high", "medium", "low"} =>
             /\ ~RedFlagged(last.description) /\ ~RedFlagged(last.domain)
             /\ ~RedFlagged(last.title) /\ ~RedFlagged(last.notes)

\* a text of relevance 100 with a red flag in its description is untrusted
C11_Witness ==
    /\ last.op = "rate"
    /\ last.relevance = 100
    /\ RedFlagged(last.description)
    /\ last.trust = "untrusted"

----------------------------------------------------------------------------
(* the Merger *)

\* the positions of ps2 that a merge into ps has appended
AddedPositions(ps, ps2) == (Len(ps) + 1)..Len(ps2)

\* C12: a discovery record whose alive flag is false or missing, or whose
\* has_content flag is false or missing, is the source of no entry a merge
\* adds (no added entry carries the id of its domain).
C12_MergeSkipsDead ==
    [][last'.op = "sync" =>
         \A i \in 1..Len(sites) :
            ( \/ "alive" \notin DOMAIN sites[i].info
              \/ ~sites[i].info.alive
              \/ "has_content" \notin DOMAIN sites[i].info
              \/ ~sites[i].info.has_content )
            => \A k \in AddedPositions(portals, portals') :
                 portals'[k].id # domain_to_id(sites[i].domain)]_vars

\* a sync has added an entry from a crawler DB that also holds a record which
\* is not alive or has no content
C12_Witness ==
    /\ last.op = "sync" /\ last.added > 0
    /\ \E i \in 1..Len(sites) :
         \/ "alive" \notin DOMAIN sites[i].info
         \/ ~sites[i].info.alive
         \/ "has_content" \notin DOMAIN sites[i].info

\* the record's domain, lower-cased and without www., equals the domain (host
\* without www.) of a registry entry, or ends with "." and such a domain
Covered(site, ps) ==
    \E j \in 1..Len(ps) :
        \/ domain_clean(site.domain) = DomainOf(ps[j].url)
        \/ EndsWith(domain_clean(site.domain), "." \o DomainOf(ps[j].url))

\* C13: a merge adds no entry for a discovery record whose domain is the
\* domain of an existing registry entry or a subdomain of one.
C13_MergeSkipsCovered ==
    [][last'.op = "sync" =>
         \A i \in 1..Len(sites) :
            Covered(sites[i], portals)
            => \A k \in AddedPositions(portals, portals') :
                 portals'[k].id # domain_to_id(sites[i].domain)]_vars

\* C14: all entries of the registry have pairwise distinct ids, after any
\* sequence of merges from a registry with pairwise distinct ids.
C14_IdsUnique ==
    \A i, j \in 1..Len(portals) : i # j => portals[i].id # portals[j].id

\* C17: a merge leaves every pre-existing entry as it is and where it is,
\* removes none, and appends the new entries after them, each synthesized
\* from a discovery record, in the order of their records.
C17_MergeFrame ==
    [][last'.op = "sync" =>
         /\ Len(portals') >= Len(portals)
         /\ \A k \in 1..Len(portals) : portals'[k] = portals[k]
         /\ \A k \in AddedPositions(portals, portals') :
              \E i \in 1..Len(sites) : portals'[k] = SyncPortal(sites[i], today)
         /\ \A k, l \in AddedPositions(portals, portals') :
              \A i, j \in 1..Len(sites) :
                 ( /\ k < l
                   /\ portals'[k].id = domain_to_id(sites[i].domain)
                   /\ portals'[l].id = domain_to_id(sites[j].domain) )
                 => i < j]_vars

\* a sync has appended two entries to a registry that was not empty
C17_Witness ==
    /\ last.op = "sync" /\ last.added = 2
    /\ Len(portals) > 2

----------------------------------------------------------------------------
(* the batch of verify_sites and the stores *)

\* C15: whatever the oracle answers, the candidate in turn is cached and
\* classified (in the error bucket when its verdict is error) and the batch
\* goes on to its next candidate, up to the cache flush: no turn of the loop
\* ends the run.
C15_BatchNeverHalts ==
    [][(run.pc = "verifying" /\ run.i <= Len(run.urls)) =>
         /\ run'.pc = "verifying"
         /\ run'.i = run.i + 1
         /\ run.urls[run.i].domain \in DOMAIN run'.cache
         /\ last'.verdict = "error"
              => Len(run'.results.errors) = Len(run.results.errors) + 1]_vars

\* C16: no operation that reads a store ends in an error for an absent store
\* file: remove_duplicates, score_portals and apply_results complete, and
\* apply_results never fails on its exclusion half after it has updated the
\* registry.
C16_AbsentFileCompletes ==
    last.op = "raised" =>
        last.by \notin {"remove_duplicates", "score_portals", "apply_results"}

\* the domains of a batch
BatchDomains(urls) == {urls[i].domain : i \in 1..Len(urls)}

\* the bucket of results holds the domain under the verdict the cache record
\* carries (a record without a verdict counts as error)
Bucketed(results, domain, record) ==
    LET verdict == IF "verdict" \in DOMAIN record.result
                   THEN record.result.verdict ELSE "error"
    IN  IF verdict = "agent-usable"
        THEN \E k \in 1..Len(results.agent_usable) :
                results.agent_usable[k].domain = domain
        ELSE IF verdict \in {"for-humans", "parked", "redirect", "wrong-industry", "dead"}
        THEN \E k \in 1..Len(results.excluded) :
                /\ results.excluded[k].domain = domain
                /\ results.excluded[k].verdict = verdict
        ELSE \E k \in 1..Len(results.errors) : results.errors[k].domain = domain

\* C18: when verify_sites completes, the cache on file holds for every domain
\* of the batch a record dated today with the verdict produced for it,
\* whatever the verdict; the records of all other domains are unchanged; and
\* no domain of the batch is a candidate again in the current month.
C18_BatchCached ==
    [][last'.op = "flush" =>
         /\ \A d \in BatchDomains(run.urls) :
              /\ d \in DOMAIN cache'
              /\ cache'[d].verified = StrfDate(today)
              /\ Bucketed(run'.results, d, cache'[d])
         /\ \A d \in DOMAIN cache \ BatchDomains(run.urls) :
              d \in DOMAIN cache' /\ cache'[d] = cache[d]
         /\ DOMAIN cache' \subseteq DOMAIN cache \cup BatchDomains(run.urls)
         /\ \A k \in 1..Len(Dates) :
              (Dates[k].y = today.y /\ Dates[k].m = today.m /\ Dates[k].d >= today.d)
              => \A c \in Range(get_unverified_sites(sites, portals, excluded,
                                                      cache', Dates[k])) :
                    c.domain \notin BatchDomains(run.urls)]_vars

\* a batch has been flushed with a verdict of error in it, beside the record
\* of an earlier month
C18_Witness ==
    /\ last.op = "flush"
    /\ Len(run.results.errors) > 0
    /\ \E d \in DOMAIN cache : cache[d].verified # StrfDate(today)

\* C19: no domain is both a registry domain and a key of the Exclusion Store.
C19_StoresDisjoint ==
    load_portals(portals) \cap DOMAIN excluded = {}

====
